---- MODULE Spec2Model ----
(***************************************************************************)
(* Model of the AITester scripts.                                          *)
(*                                                                         *)
(*   strategy_backtest.py     the per-ticker loop that fills all_results   *)
(*                            and writes results/strategy_metrics.csv      *)
(*   build_dashboard.py       Beat_Market / Market_Outperf, the top-20     *)
(*                            pure-outperformer view                       *)
(*   top_performers_analysis.py  the composite-score ranking               *)
(*   verify_methodology.py    the manual recomputation of the top-20       *)
(*                                                                         *)
(* Units: total return, drawdown and outperformance are whole percent,     *)
(* the Sharpe ratio is in tenths, the composite score in thousandths.      *)
(***************************************************************************)
EXTENDS Integers, Sequences, FiniteSets, TLC

\* Number of tickers of the universe the loop walks (TICKERS holds 41).
NTickers == 2

\* Number of tickers of the large results tables read by the aggregators.
BigTickers == 9

TICKERS == 1..NTickers

\* A missing value: None in a stats dict, an empty cell / NaN in a frame.
NaN == -9999

\* The order in which a ticker's rows are written.
StrategyLabelsNoBenchmark == <<"Trend", "High_Vol", "Low_Vol">>

StrategyLabels == <<"Trend", "High_Vol", "Low_Vol", "Benchmark">>

----------------------------------------------------------------------------
(* Statistics of one portfolio, as getportfolio_stats returns them.        *)

Stat(r, s, d) == [ret |-> r, sharpe |-> s, dd |-> d]

\* pf.stats raised: every metric is None.
StatsFailed == Stat(NaN, NaN, NaN)

\* A portfolio whose Sharpe ratio (and drawdown) cell is empty.
NoSharpe == Stat(0, NaN, NaN)

BenchStats == {Stat(-2, 3, -3), Stat(2, 8, -2), StatsFailed}

TrendStats == {Stat(-1, 6, -2), Stat(1, 5, -1), Stat(2, 8, -1), StatsFailed}

HighVolStats == {Stat(2, 9, -4)}

LowVolStats == {NoSharpe}

\* The four statistics sets saved for one ticker.
Blocks ==
  [Trend : TrendStats, High_Vol : HighVolStats, Low_Vol : LowVolStats,
   Benchmark : BenchStats]

Entry(t, b) ==
  [Ticker |-> t, Trend |-> b.Trend, High_Vol |-> b.High_Vol,
   Low_Vol |-> b.Low_Vol, Benchmark |-> b.Benchmark]

\* rows / df_summary: one row per entry and strategy label.
RowsWith(results, labels) ==
  [k \in 1..(Len(results) * Len(labels)) |->
     LET r == results[((k - 1) \div Len(labels)) + 1]
         strat == labels[((k - 1) % Len(labels)) + 1]
     IN  [Ticker |-> r.Ticker, Strategy |-> strat, ret |-> r[strat].ret,
          sharpe |-> r[strat].sharpe, dd |-> r[strat].dd]]

Rows(results) == RowsWith(results, StrategyLabels)

----------------------------------------------------------------------------
(* strategy_backtest.py: the per-ticker loop.                              *)

VARIABLES
  pc,           \* position in the script
  i,            \* index of the current ticker in TICKERS
  all_results,  \* the results collection
  reports,      \* tickers whose analysis/<T>_analysis.html was written
  df_summary,   \* the rows written to results/strategy_metrics.csv
  csvWritten,   \* whether results/strategy_metrics.csv was written
  weekly,       \* per ticker: what the download in download_weekly returned
  daily,        \* per ticker: what the daily download returned
  first         \* per ticker: outcome of the first-trade-date logic

btVars == <<pc, i, all_results, reports, df_summary, csvWritten, weekly,
            daily, first>>

(* build_dashboard.py, top_performers_analysis.py, verify_methodology.py:   *)
(* one run of one of the scripts on results/strategy_metrics.csv.          *)
VARIABLES
  script,           \* which script runs
  apc,              \* position in that script
  csv,              \* the rows of results/strategy_metrics.csv
  tradeCols,        \* whether the file has 'Total Trades' and 'Win Rate [%]'
  df,               \* the script's frame df
  top10,            \* build_dashboard: the top-20 outperformer view
  strategies_only,  \* top_performers_analysis
  top_strategies,   \* top_performers_analysis: the composite ranking
  top_display,      \* top_performers_analysis: the displayed table
  detailed_csv,     \* rows of results/top_performers_detailed.csv
  strategies,       \* verify_methodology
  top20_manual,     \* verify_methodology
  top20_check,      \* verify_methodology: the dashboard logic re-run
  html,             \* whether the script wrote its HTML file
  run,              \* 1 in the first run of the script, 2 in its re-run
  input,            \* the rows results/strategy_metrics.csv had before run 1
  first_run         \* what the first run computed, kept for the re-run

aggVars == <<script, apc, csv, tradeCols, df, top10, strategies_only,
             top_strategies, top_display, detailed_csv, strategies,
             top20_manual, top20_check, html, run, input, first_run>>

(* The strategy builders, the simulator and the first-trade-date logic for  *)
(* one ticker.                                                             *)
VARIABLES
  spc,         \* position in the loop body for the ticker
  weekly_dir,  \* st_dir of build_weekly_trend_strategy, one value per week
  trend_sig,   \* entries and exits handed to from_signals for pf_trend
  high_sig,    \* entries and exits handed to from_signals for high_vol
  low_sig,     \* entries and exits handed to from_signals for low_vol
  was_below,   \* crossed_above: fast was below slow since the last crossing
  was_above,   \* crossed_below: fast was above slow since the last crossing
  portfolio,   \* per strategy: position after each bar, fills, fees charged
  start,       \* start of the first trade date logic (0: not set)
  benchmark    \* first date of bench_close (0: not built)

sigVars == <<spc, weekly_dir, trend_sig, high_sig, low_sig, was_below,
             was_above, portfolio, start, benchmark>>

(* get_extended_stats on one portfolio.                                    *)
VARIABLES
  xpc,    \* position in get_extended_stats
  pf,     \* the portfolio it is applied to
  stats   \* the stats dict

statVars == <<xpc, pf, stats>>

\* What yf.download can hand to download_weekly: a usable frame, a frame with
\* too few weekly bars for the indicators, an empty frame, a frame lacking one
\* of the required columns.
WeeklyOutcomes == {"ok", "short", "empty", "nocols"}

\* What yf.download can hand to build_daily_volatility_strategies: a usable
\* frame, an empty frame, a frame lacking Close, High or Low, a frame lacking
\* only Open or Volume.
DailyOutcomes == {"ok", "empty", "nokey", "noextra"}

\* First-trade-date logic: no strategy traded; the earliest first trade is a
\* date of the daily index; it is not and a later daily date exists; it is not
\* and no later daily date exists.
FirstOutcomes == {"notrades", "inindex", "advanced", "pastend"}

\* The statistics sets the loop model saves for a ticker.
SavedBlocks ==
  {b \in Blocks : /\ b.Trend \in {Stat(2, 8, -1), StatsFailed}
                  /\ b.Benchmark \in {Stat(2, 8, -2), StatsFailed}}

BtInit ==
  /\ pc = "download_weekly"
  /\ i = 1
  /\ all_results = <<>>
  /\ reports = {}
  /\ df_summary = <<>>
  /\ csvWritten = FALSE
  /\ weekly = [t \in TICKERS |-> "none"]
  /\ daily = [t \in TICKERS |-> "none"]
  /\ first = [t \in TICKERS |-> "none"]

\* `continue` and the end of the loop body: on to the next ticker.
NextTicker ==
  /\ i' = i + 1
  /\ pc' = IF i + 1 > NTickers THEN "summary" ELSE "download_weekly"

\* An exception nobody catches ends the script.
Raise == pc' = "aborted" /\ i' = i

\* for ticker in TICKERS: the ticker of the current iteration.
ticker == i

\* weekly = download_weekly(ticker); if weekly is None: continue
DownloadWeekly ==
  /\ pc = "download_weekly"
  /\ \E o \in WeeklyOutcomes :
       /\ weekly' = [weekly EXCEPT ![ticker] = o]
       /\ IF o \in {"empty", "nocols"}
            THEN NextTicker
            ELSE pc' = "trend" /\ i' = i
  /\ UNCHANGED <<aggVars, sigVars, statVars>>
  /\ UNCHANGED <<all_results, reports, df_summary, csvWritten, daily, first>>

\* pf_trend, weekly_dir = build_weekly_trend_strategy(...): with too few
\* weekly bars the indicator library returns None and indexing it raises.
BuildWeeklyTrend ==
  /\ pc = "trend"
  /\ IF weekly[ticker] = "short"
       THEN Raise
       ELSE pc' = "download_daily" /\ i' = i
  /\ UNCHANGED <<aggVars, sigVars, statVars>>
  /\ UNCHANGED <<all_results, reports, df_summary, csvWritten, weekly, daily,
                 first>>

\* build_daily_volatility_strategies: only df.empty is tested; df["Close"],
\* df["High"], df["Low"] raise KeyError on a frame that lacks them, and a frame
\* that lacks only Open or Volume is used as it is.
BuildDailyVolatility ==
  /\ pc = "download_daily"
  /\ \E o \in DailyOutcomes :
       /\ daily' = [daily EXCEPT ![ticker] = o]
       /\ CASE o = "empty" -> NextTicker
            [] o = "nokey" -> Raise
            [] OTHER -> pc' = "first_dates" /\ i' = i
  /\ UNCHANGED <<aggVars, sigVars, statVars>>
  /\ UNCHANGED <<all_results, reports, df_summary, csvWritten, weekly, first>>

\* First trade date logic: continue when no strategy traded or when no daily
\* date lies on or after the earliest first trade.
FirstTradeDate ==
  /\ pc = "first_dates"
  /\ \E o \in FirstOutcomes :
       /\ first' = [first EXCEPT ![ticker] = o]
       /\ IF o \in {"notrades", "pastend"}
            THEN NextTicker
            ELSE pc' = "stats" /\ i' = i
  /\ UNCHANGED <<aggVars, sigVars, statVars>>
  /\ UNCHANGED <<all_results, reports, df_summary, csvWritten, weekly, daily>>

\* The entry of the ticker inserted in front of the collection.
SaveStatsInFront ==
  /\ pc = "stats"
  /\ \E b \in SavedBlocks : all_results' = <<Entry(ticker, b)>> \o all_results
  /\ pc' = "report"
  /\ UNCHANGED <<aggVars, sigVars, statVars>>
  /\ UNCHANGED <<i, reports, df_summary, csvWritten, weekly, daily, first>>

\* Save stats: the four getportfolio_stats calls and all_results.append.
SaveStats ==
  /\ pc = "stats"
  /\ \E b \in SavedBlocks : all_results' = Append(all_results, Entry(ticker, b))
  /\ pc' = "report"
  /\ UNCHANGED <<aggVars, sigVars, statVars>>
  /\ UNCHANGED <<i, reports, df_summary, csvWritten, weekly, daily, first>>

\* The figure is built and fig.write_html writes the report; a failed write
\* raises.
WriteReport ==
  /\ pc = "report"
  /\ \E written \in BOOLEAN :
       IF written
         THEN reports' = reports \cup {ticker} /\ NextTicker
         ELSE reports' = reports /\ Raise
  /\ UNCHANGED <<aggVars, sigVars, statVars>>
  /\ UNCHANGED <<all_results, df_summary, csvWritten, weekly, daily, first>>

\* SUMMARY TABLE: rows, df_summary and df_summary.to_csv.
WriteSummary ==
  /\ pc = "summary"
  /\ df_summary' = Rows(all_results)
  /\ csvWritten' = TRUE
  /\ pc' = "done"
  /\ UNCHANGED <<aggVars, sigVars, statVars>>
  /\ UNCHANGED <<i, all_results, reports, weekly, daily, first>>

\* METRICS: the metric names handed to pf.stats.
METRICS ==
  {"total_return", "max_dd", "sharpe_ratio", "sortino_ratio", "calmar_ratio"}

\* The titles under which pf.stats reports the metrics of METRICS.
MetricTitles ==
  {"Total Return [%]", "Max Drawdown [%]", "Sharpe Ratio", "Sortino Ratio",
   "Calmar Ratio"}

\* The keys of the dict getportfolio_stats returns: the titles of the stats
\* Series, or the names of METRICS (with None values) when pf.stats raised.
StatKeys(stat) == IF stat = StatsFailed THEN METRICS ELSE MetricTitles

\* The columns of df_summary = pd.DataFrame(rows): the union of the keys of
\* the row dicts; no columns without rows.
Columns(results) ==
  IF Len(results) = 0
    THEN {}
    ELSE {"Ticker", "Strategy"}
           \cup UNION {StatKeys(results[k][StrategyLabels[n]]) :
                         k \in 1..Len(results), n \in 1..Len(StrategyLabels)}

\* The metric columns the interface names for results/strategy_metrics.csv.
InterfaceColumns ==
  MetricTitles \cup {"Total Trades", "Win Rate [%]"}

\* display_cols of top_performers_analysis.
display_cols ==
  {"Rank", "Ticker", "Strategy", "Total Return [%]", "Sharpe Ratio",
   "Sortino Ratio", "Max Drawdown [%]", "Calmar Ratio", "Outperformance",
   "Total Trades", "Win Rate [%]", "Composite_Score"}

\* The columns top_performers_analysis adds to the frame it read.
ComputedColumns ==
  {"Benchmark_Return", "Beat_Market", "Outperformance", "Composite_Score",
   "Rank"}

----------------------------------------------------------------------------
(* Frames: a frame is a sequence of rows, a row a record of its columns.   *)

Min(a, b) == IF a < b THEN a ELSE b

\* a >= b on cells that may be missing.
Geq(a, b) == a # NaN /\ b # NaN /\ a >= b

\* a > b on cells that may be missing: a comparison with NaN is False.
Gt(a, b) == a # NaN /\ b # NaN /\ a > b

\* a - b on cells that may be missing: NaN propagates.
Minus(a, b) == IF a = NaN \/ b = NaN THEN NaN ELSE a - b

\* df.head(n)
HeadN(s, n) == SubSeq(s, 1, Min(n, Len(s)))

InsertAsc(x, s, f) ==
  LET p == Cardinality({j \in 1..Len(s) : s[j][f] <= x[f]})
  IN  SubSeq(s, 1, p) \o <<x>> \o SubSeq(s, p + 1, Len(s))

\* x goes behind every row whose key is at least its own.
InsertDesc(x, s, f) ==
  LET p == Cardinality({j \in 1..Len(s) : s[j][f] >= x[f]})
  IN  SubSeq(s, 1, p) \o <<x>> \o SubSeq(s, p + 1, Len(s))

RECURSIVE SortWith(_, _, _)
SortWith(s, f, desc) ==
  IF s = <<>>
    THEN <<>>
    ELSE LET rest == SortWith(SubSeq(s, 1, Len(s) - 1), f, desc)
         IN  IF desc THEN InsertDesc(s[Len(s)], rest, f)
                     ELSE InsertAsc(s[Len(s)], rest, f)

SortAsc(s, f) == SortWith(s, f, FALSE)

\* Rows by column f, largest first, equal keys in their order in s; a missing
\* key (NaN) sorts last.
SortDesc(s, f) == SortWith(s, f, TRUE)

NSmallest(n, s, f) ==
  HeadN(SortAsc(SelectSeq(s, LAMBDA r : r[f] # NaN), f), n)

\* df.nlargest(n, f): the n rows with the largest f, largest first, the first
\* occurrence winning among equal values; rows with a missing f are left out.
NLargest(n, s, f) ==
  HeadN(SortDesc(SelectSeq(s, LAMBDA r : r[f] # NaN), f), n)

\* frame['Rank'] = range(1, len(frame) + 1)
Ranked(s) == [k \in 1..Len(s) |-> s[k] @@ [Rank |-> k]]

\* df.dropna(subset=['Total Return [%]', 'Sharpe Ratio'])
DropNa(rows) == SelectSeq(rows, LAMBDA r : r.ret # NaN /\ r.sharpe # NaN)

\* df[df['Strategy'] != 'Benchmark']
NonBenchmark(rows) == SelectSeq(rows, LAMBDA r : r.Strategy # "Benchmark")

\* The file has the 'Total Return [%]' and 'Sharpe Ratio' columns: some row
\* came from a pf.stats call that returned (a failed call contributes only the
\* keys total_return, max_dd, ...), and a file without rows has no columns.
Readable(rows) ==
  \E k \in 1..Len(rows) :
    rows[k].ret # NaN \/ rows[k].sharpe # NaN \/ rows[k].dd # NaN

HasBenchmark(rows, t) ==
  \E k \in 1..Len(rows) : rows[k].Strategy = "Benchmark" /\ rows[k].Ticker = t

\* The Total Return of ticker t's Benchmark row.
BenchmarkReturn(rows, t) ==
  LET k == CHOOSE j \in 1..Len(rows) :
             rows[j].Strategy = "Benchmark" /\ rows[j].Ticker = t
  IN  rows[k].ret

\* benchmark_returns.get(row['Ticker'], 0)
GetOrZero(rows, t) ==
  IF HasBenchmark(rows, t) THEN BenchmarkReturn(rows, t) ELSE 0

\* The merge(how='left') column and Series.map: missing without a Benchmark row.
GetOrNaN(rows, t) ==
  IF HasBenchmark(rows, t) THEN BenchmarkReturn(rows, t) ELSE NaN

\* Top-20 of the pure-outperformer views.
OutperformerN == 20

\* top_n of top_performers_analysis.
top_n == 25

\* Sharpe Ratio > 0.5, in tenths.
SharpeMin == 5

----------------------------------------------------------------------------
(* The results tables the scripts are run on: tables of the shape          *)
(* strategy_backtest writes.                                               *)

SmallResults ==
  UNION {{[t \in 1..k |-> Entry(t, f[t])] : f \in [1..k -> Blocks]} :
           k \in 0..NTickers}

\* Large tables: a ticker whose three strategies all beat a flat benchmark
\* with positive returns ("A"), or whose three strategies lose 1% against a
\* benchmark that lost 5% ("N").
BigBlock(t, p) ==
  IF p = "A"
    THEN [Trend |-> Stat(1 + ((3 * t) % 7), 6 + (t % 3), 0 - (t % 4)),
          High_Vol |-> Stat(1 + ((5 * t) % 7), 8, -2),
          Low_Vol |-> Stat(1 + t, 7, -1),
          Benchmark |-> Stat(0, 5, -5)]
    ELSE [Trend |-> Stat(-1, 4, -3), High_Vol |-> Stat(-1, 4, -3),
          Low_Vol |-> Stat(-1, 4, -3), Benchmark |-> Stat(-5, 2, -9)]

\* The profiles of the tickers of a large table repeat with period 3.
BigResults ==
  {[t \in 1..BigTickers |-> Entry(t, BigBlock(t, f[((t - 1) % 3) + 1]))] :
     f \in [1..3 -> {"A", "N"}]}

InputTables == {Rows(res) : res \in SmallResults \cup BigResults}

Scripts == {"dashboard", "top_performers", "verify"}

BtIdle ==
  /\ pc = "idle"
  /\ i = 0
  /\ all_results = <<>>
  /\ reports = {}
  /\ df_summary = <<>>
  /\ csvWritten = FALSE
  /\ weekly = [t \in TICKERS |-> "none"]
  /\ daily = [t \in TICKERS |-> "none"]
  /\ first = [t \in TICKERS |-> "none"]

AggIdle ==
  /\ script = "none"
  /\ apc = "idle"
  /\ csv = <<>>
  /\ tradeCols = FALSE
  /\ df = <<>>
  /\ top10 = <<>>
  /\ strategies_only = <<>>
  /\ top_strategies = <<>>
  /\ top_display = <<>>
  /\ detailed_csv = <<>>
  /\ strategies = <<>>
  /\ top20_manual = <<>>
  /\ top20_check = <<>>
  /\ html = FALSE
  /\ run = 0
  /\ input = <<>>
  /\ first_run = <<>>

AggInit ==
  /\ script \in Scripts
  /\ apc = "load"
  /\ csv \in InputTables
  /\ tradeCols \in BOOLEAN
  /\ df = <<>>
  /\ top10 = <<>>
  /\ strategies_only = <<>>
  /\ top_strategies = <<>>
  /\ top_display = <<>>
  /\ detailed_csv = <<>>
  /\ strategies = <<>>
  /\ top20_manual = <<>>
  /\ top20_check = <<>>
  /\ html = FALSE
  /\ run = 1
  /\ input = csv
  /\ first_run = <<>>

dashVars == <<top10>>

topVars == <<strategies_only, top_strategies, top_display, detailed_csv>>

verVars == <<strategies, top20_manual, top20_check>>

inVars == <<script, csv, tradeCols, run, input, first_run>>

----------------------------------------------------------------------------
(* build_dashboard.py                                                      *)

\* Load results, Clean data.
DashLoad ==
  /\ script = "dashboard" /\ apc = "load"
  /\ IF Readable(csv)
       THEN df' = DropNa(csv) /\ apc' = "beat"
       ELSE df' = df /\ apc' = "crashed"
  /\ UNCHANGED <<inVars, dashVars, topVars, verVars, html>>
  /\ UNCHANGED <<btVars, sigVars, statVars>>

\* df['Beat_Market']: 'Yes' for a strategy row whose return is above its
\* ticker's benchmark return (0 without one).
BeatMarket(row, rows) ==
  IF row.Strategy # "Benchmark" /\ Gt(row.ret, GetOrZero(rows, row.Ticker))
    THEN "Yes"
    ELSE "No"

\* df['Market_Outperf']
MarketOutperf(row, rows) ==
  IF row.Strategy # "Benchmark"
    THEN Minus(row.ret, GetOrZero(rows, row.Ticker))
    ELSE 0

\* The frame with the two columns added.
WithBeatMarket(rows) ==
  [k \in 1..Len(rows) |->
     rows[k] @@ [Beat_Market |-> BeatMarket(rows[k], rows),
                 Market_Outperf |-> MarketOutperf(rows[k], rows)]]

\* Add beat_market column, Calculate outperformance.
DashBeat ==
  /\ script = "dashboard" /\ apc = "beat"
  /\ df' = WithBeatMarket(df)
  /\ apc' = "top"
  /\ UNCHANGED <<inVars, dashVars, topVars, verVars, html>>
  /\ UNCHANGED <<btVars, sigVars, statVars>>

OutperformersAll(rows) == NonBenchmark(rows)

OutperformersPositive(rows) ==
  SelectSeq(rows, LAMBDA r : /\ r.Strategy # "Benchmark"
                             /\ r.Beat_Market = "Yes"
                             /\ r.ret > 0)

\* outperformers: the strategy rows that beat the market.
Outperformers(rows) ==
  SelectSeq(rows, LAMBDA r : r.Strategy # "Benchmark" /\ r.Beat_Market = "Yes")

\* top10 = outperformers.nlargest(20, 'Total Return [%]') with its Rank.
Top10(rows) == Ranked(NLargest(OutperformerN, Outperformers(rows), "ret"))

\* 1. TOP 20 HIGHEST RETURN OUTPERFORMERS
DashTop ==
  /\ script = "dashboard" /\ apc = "top"
  /\ top10' = Top10(df)
  /\ apc' = "findings"
  /\ UNCHANGED <<inVars, df, topVars, verVars, html>>
  /\ UNCHANGED <<btVars, sigVars, statVars>>

\* 2. STRATEGY SUMMARY to Save: top10.iloc[0] needs a row in top10 and
\* strategy_summary[...'Trend']['Wins'].values[0] a Trend row in df.
DashFinish ==
  /\ script = "dashboard" /\ apc = "findings"
  /\ IF Len(top10) > 0 /\ \E k \in 1..Len(df) : df[k].Strategy = "Trend"
       THEN html' = TRUE /\ apc' = "done"
       ELSE html' = html /\ apc' = "crashed"
  /\ UNCHANGED <<inVars, df, dashVars, topVars, verVars>>
  /\ UNCHANGED <<btVars, sigVars, statVars>>

----------------------------------------------------------------------------
(* top_performers_analysis.py                                              *)

\* Load results, Clean and filter.
TopLoad ==
  /\ script = "top_performers" /\ apc = "load"
  /\ IF Readable(csv)
       THEN /\ df' = DropNa(csv)
            /\ strategies_only' = NonBenchmark(DropNa(csv))
            /\ apc' = "merge"
       ELSE /\ df' = df
            /\ strategies_only' = strategies_only
            /\ apc' = "crashed"
  /\ UNCHANGED <<inVars, dashVars, top_strategies, top_display, detailed_csv,
                 verVars, html>>
  /\ UNCHANGED <<btVars, sigVars, statVars>>

\* merge(benchmark_data, on='Ticker', how='left'), Beat_Market, Outperformance.
WithBenchmark(rows, all) ==
  [k \in 1..Len(rows) |->
     LET b == GetOrNaN(all, rows[k].Ticker)
     IN  rows[k] @@ [Benchmark_Return |-> b,
                     Beat_Market |-> Gt(rows[k].ret, b),
                     Outperformance |-> Minus(rows[k].ret, b)]]

\* Add benchmark comparison for each stock.
TopMerge ==
  /\ script = "top_performers" /\ apc = "merge"
  /\ strategies_only' = WithBenchmark(strategies_only, df)
  /\ apc' = "score"
  /\ UNCHANGED <<inVars, df, dashVars, top_strategies, top_display,
                 detailed_csv, verVars, html>>
  /\ UNCHANGED <<btVars, sigVars, statVars>>

QualifiesGeq(r) ==
  Geq(r.sharpe, SharpeMin) /\ r.Beat_Market = TRUE /\ Gt(r.ret, 0)

\* FILTER CRITERIA: Sharpe > 0.5, beat the benchmark, profitable.
Qualifies(r) ==
  Gt(r.sharpe, SharpeMin) /\ r.Beat_Market = TRUE /\ Gt(r.ret, 0)

CompositeScorePlusDD(r) ==
  IF r.sharpe = NaN \/ r.ret = NaN \/ r.Outperformance = NaN \/ r.dd = NaN
    THEN NaN
    ELSE 40 * r.sharpe + 3 * r.ret + 2 * r.Outperformance + r.dd

\* Composite_Score in thousandths: 0.4 * Sharpe + 0.3 * (return / 100)
\* + 0.2 * (outperformance / 100) + 0.1 * (-maxdd / 100).
CompositeScore(r) ==
  IF r.sharpe = NaN \/ r.ret = NaN \/ r.Outperformance = NaN \/ r.dd = NaN
    THEN NaN
    ELSE 40 * r.sharpe + 3 * r.ret + 2 * r.Outperformance + (0 - r.dd)

\* top_strategies: the filtered rows with their Composite_Score.
Scored(rows) ==
  LET kept == SelectSeq(rows, Qualifies)
  IN  [k \in 1..Len(kept) |->
         kept[k] @@ [Composite_Score |-> CompositeScore(kept[k])]]

\* FILTER CRITERIA, Calculate composite score.
TopScore ==
  /\ script = "top_performers" /\ apc = "score"
  /\ top_strategies' = Scored(strategies_only)
  /\ apc' = "sort"
  /\ UNCHANGED <<inVars, df, dashVars, strategies_only, top_display,
                 detailed_csv, verVars, html>>
  /\ UNCHANGED <<btVars, sigVars, statVars>>

\* sort_values('Composite_Score', ascending=False).reset_index, Rank.
SortedByScore(rows) == Ranked(SortDesc(rows, "Composite_Score"))

\* Sort by composite score.
TopSort ==
  /\ script = "top_performers" /\ apc = "sort"
  /\ top_strategies' = SortedByScore(top_strategies)
  /\ apc' = "display"
  /\ UNCHANGED <<inVars, df, dashVars, strategies_only, top_display,
                 detailed_csv, verVars, html>>
  /\ UNCHANGED <<btVars, sigVars, statVars>>

\* One row of the displayed table: the display_cols of the row.
DisplayRow(r) ==
  [Rank |-> r.Rank, Ticker |-> r.Ticker, Strategy |-> r.Strategy,
   ret |-> r.ret, sharpe |-> r.sharpe, dd |-> r.dd,
   Outperformance |-> r.Outperformance, Composite_Score |-> r.Composite_Score]

TopDisplayAll(rows) == [k \in 1..Len(rows) |-> DisplayRow(rows[k])]

\* top_display = top_strategies.head(top_n)[display_cols]
TopDisplay(rows) ==
  LET h == HeadN(rows, top_n) IN [k \in 1..Len(h) |-> DisplayRow(h[k])]

\* Select columns for display: display_cols names 'Total Trades' and
\* 'Win Rate [%]', a KeyError on a file without them.
TopSelect ==
  /\ script = "top_performers" /\ apc = "display"
  /\ IF tradeCols
       THEN top_display' = TopDisplay(top_strategies) /\ apc' = "save"
       ELSE top_display' = top_display /\ apc' = "crashed"
  /\ UNCHANGED <<inVars, df, dashVars, strategies_only, top_strategies,
                 detailed_csv, verVars, html>>
  /\ UNCHANGED <<btVars, sigVars, statVars>>

\* to_csv writing the ranking over results/strategy_metrics.csv.
TopSaveOverInput ==
  /\ script = "top_performers" /\ apc = "save"
  /\ html' = TRUE
  /\ detailed_csv' = top_strategies
  /\ csv' = top_strategies
  /\ apc' = "done"
  /\ UNCHANGED <<script, tradeCols, run, input, first_run, df, dashVars,
                 strategies_only, top_strategies, top_display, verVars>>
  /\ UNCHANGED <<btVars, sigVars, statVars>>

\* BUILD DASHBOARD to Save: fig.write_html and top_strategies.to_csv.
TopSave ==
  /\ script = "top_performers" /\ apc = "save"
  /\ html' = TRUE
  /\ detailed_csv' = top_strategies
  /\ apc' = "done"
  /\ UNCHANGED <<inVars, df, dashVars, strategies_only, top_strategies,
                 top_display, verVars>>
  /\ UNCHANGED <<btVars, sigVars, statVars>>

----------------------------------------------------------------------------
(* verify_methodology.py                                                   *)

\* Load data to 3. STRATEGY VS BENCHMARK COUNT: the table is not cleaned.
VerLoad ==
  /\ script = "verify" /\ apc = "load"
  /\ IF Readable(csv)
       THEN df' = csv /\ strategies' = NonBenchmark(csv) /\ apc' = "manual"
       ELSE df' = df /\ strategies' = strategies /\ apc' = "crashed"
  /\ UNCHANGED <<inVars, dashVars, topVars, top20_manual, top20_check, html>>
  /\ UNCHANGED <<btVars, sigVars, statVars>>

\* Benchmark_Return (Series.map), Manual_Beat_Market, Manual_Outperf.
WithManual(rows, all) ==
  [k \in 1..Len(rows) |->
     LET b == GetOrNaN(all, rows[k].Ticker)
     IN  rows[k] @@ [Benchmark_Return |-> b,
                     Manual_Beat_Market |-> Gt(rows[k].ret, b),
                     Manual_Outperf |-> Minus(rows[k].ret, b)]]

\* 4. BENCHMARK COMPARISON VERIFICATION, 5. OUTPERFORMER STATISTICS
VerManual ==
  /\ script = "verify" /\ apc = "manual"
  /\ strategies' = WithManual(strategies, df)
  /\ apc' = "top"
  /\ UNCHANGED <<inVars, df, dashVars, topVars, top20_manual, top20_check,
                 html>>
  /\ UNCHANGED <<btVars, sigVars, statVars>>

\* outperformers = strategies[strategies['Manual_Beat_Market'] == True]
ManualOutperformers(rows) ==
  SelectSeq(rows, LAMBDA r : r.Manual_Beat_Market = TRUE)

\* top20_manual with its Rank.
Top20Manual(rows) ==
  Ranked(NLargest(OutperformerN, ManualOutperformers(rows), "ret"))

\* 6. TOP 20 RANKING VERIFICATION, 7. SANITY CHECKS
VerTop ==
  /\ script = "verify" /\ apc = "top"
  /\ top20_manual' = Top20Manual(strategies)
  /\ apc' = "check"
  /\ UNCHANGED <<inVars, df, dashVars, topVars, strategies, top20_check, html>>
  /\ UNCHANGED <<btVars, sigVars, statVars>>

\* The dashboard's logic taking the smallest returns.
Top20CheckSmallest(rows) ==
  NSmallest(OutperformerN, Outperformers(WithBeatMarket(DropNa(rows))), "ret")

\* top20_check: the dashboard's logic on the cleaned table.
Top20Check(rows) ==
  NLargest(OutperformerN, Outperformers(WithBeatMarket(DropNa(rows))), "ret")

\* 8. COMPARE WITH DASHBOARD CODE LOGIC
VerCheck ==
  /\ script = "verify" /\ apc = "check"
  /\ top20_check' = Top20Check(csv)
  /\ apc' = "stats"
  /\ UNCHANGED <<inVars, df, dashVars, topVars, strategies, top20_manual, html>>
  /\ UNCHANGED <<btVars, sigVars, statVars>>

\* 9. TOP 20 STATISTICS, 10. STRATEGY DISTRIBUTION IN TOP 20: count /
\* len(top20_manual) divides by zero on an empty top20_manual.
VerFinish ==
  /\ script = "verify" /\ apc = "stats"
  /\ apc' = IF Len(top20_manual) > 0 THEN "done" ELSE "crashed"
  /\ UNCHANGED <<inVars, df, dashVars, topVars, verVars, html>>
  /\ UNCHANGED <<btVars, sigVars, statVars>>

----------------------------------------------------------------------------
(* strategy_backtest.py: the strategy builders, the simulator and the      *)
(* first-trade-date logic for one ticker whose downloads succeeded.        *)

\* Weeks of price history of the ticker; each week has DaysPerWeek trading
\* days.
NWeeks == 2

DaysPerWeek == 2

INITIAL_CASH == 10000

\* COMMISSION = 0.002, in units of 1/10000.
COMMISSION == 20

SIZE_PERCENT == 1

\* The dates of the daily index: the trading days of the weeks; the weekly
\* index made by resample("W") is labelled by the day that ends each week,
\* which is not a trading day.
WeekSpan == DaysPerWeek + 1

WeeklyDate(k) == WeekSpan * k

DailyDate(n) == n + ((n - 1) \div DaysPerWeek)

NDays == DaysPerWeek * NWeeks

WeeklyIndex == {WeeklyDate(k) : k \in 1..NWeeks}

DailyIndex == {DailyDate(n) : n \in 1..NDays}

Max(S) == CHOOSE x \in S : \A y \in S : y <= x

MinOf(S) == CHOOSE x \in S : \A y \in S : x <= y

\* a < b of two float Series elements: False when either one is missing.
Lt(a, b) == a # NaN /\ b # NaN /\ a < b

\* a == b of two float Series elements.
Eq(a, b) == a # NaN /\ b # NaN /\ a = b

\* Series.fillna(False) of the boolean Series a comparison produced: the
\* elements that are True stay True.
FillNaFalse(v) == v = TRUE

\* entries of build_weekly_trend_strategy at one bar.
TrendEntries(close, upper_prev, st_dir, ema21, ema50) ==
  FillNaFalse(Gt(close, upper_prev) /\ Eq(st_dir, 1) /\ Gt(ema21, ema50))

TrendExitsNoDirection(close, st_line, st_dir) ==
  FillNaFalse(Lt(close, st_line))

\* exits of build_weekly_trend_strategy at one bar.
TrendExits(close, st_line, st_dir) ==
  FillNaFalse(Lt(close, st_line) /\ Eq(st_dir, -1))

\* The keyword arguments of the three Portfolio.from_signals calls; low_vol is
\* built without fees=, which leaves the fee rate at 0.
SimulatorArgs ==
  [Trend |-> [init_cash |-> INITIAL_CASH, size |-> SIZE_PERCENT,
              size_type |-> "percent", fees |-> COMMISSION, freq |-> "W"],
   High_Vol |-> [init_cash |-> INITIAL_CASH, size |-> SIZE_PERCENT,
                 size_type |-> "percent", fees |-> COMMISSION, freq |-> "1D"],
   Low_Vol |-> [init_cash |-> INITIAL_CASH, size |-> SIZE_PERCENT,
                size_type |-> "percent", fees |-> 0, freq |-> "1D"]]

\* The position of a portfolio before its next bar.
Position(p) == IF Len(p.pos) = 0 THEN "FLAT" ELSE p.pos[Len(p.pos)]

\* from_signals with direction="both": an exit without a position sells short.
FromSignalsBothDirections(p, entries, exits, fees) ==
  LET now == Position(p)
      next == IF entries /\ exits THEN now
              ELSE IF entries /\ now # "LONG" THEN "LONG"
              ELSE IF exits /\ now # "SHORT" THEN "SHORT"
              ELSE now
      filled == next # now
  IN  [pos |-> Append(p.pos, next),
       fills |-> p.fills + (IF filled THEN 1 ELSE 0),
       fees_paid |-> p.fees_paid + (IF filled THEN fees ELSE 0)]

\* Portfolio.from_signals at one bar, long only and without accumulation: an
\* entry opens a position when there is none, an exit closes the open
\* position, each fill is charged the fee rate; a bar with both signals is
\* left alone.
FromSignals(p, entries, exits, fees) ==
  LET now == Position(p)
      next == IF entries /\ exits THEN now
              ELSE IF entries /\ now = "FLAT" THEN "LONG"
              ELSE IF exits /\ now = "LONG" THEN "FLAT"
              ELSE now
      filled == next # now
  IN  [pos |-> Append(p.pos, next),
       fills |-> p.fills + (IF filled THEN 1 ELSE 0),
       fees_paid |-> p.fees_paid + (IF filled THEN fees ELSE 0)]

NoPortfolio == [pos |-> <<>>, fills |-> 0, fees_paid |-> 0]

SigIdle ==
  /\ spc = "idle"
  /\ weekly_dir = <<>>
  /\ trend_sig = <<>>
  /\ high_sig = <<>>
  /\ low_sig = <<>>
  /\ was_below = FALSE
  /\ was_above = FALSE
  /\ portfolio = [s \in {"Trend", "High_Vol", "Low_Vol"} |-> NoPortfolio]
  /\ start = 0
  /\ benchmark = 0

\* download_weekly has returned the weekly frame.
SigInit ==
  /\ spc = "trend"
  /\ weekly_dir = <<>>
  /\ trend_sig = <<>>
  /\ high_sig = <<>>
  /\ low_sig = <<>>
  /\ was_below = FALSE
  /\ was_above = FALSE
  /\ portfolio = [s \in {"Trend", "High_Vol", "Low_Vol"} |-> NoPortfolio]
  /\ start = 0
  /\ benchmark = 0

\* The values a bar of the weekly frame and its indicators can have.
CloseValues == {1, 3}

UpperValues == {NaN, 2}

BandValues == {NaN, 2, 4}

DirValues == {NaN, 1, -1}

Ema21Values == {NaN, 2}

Ema50Values == {NaN, 1}

\* build_weekly_trend_strategy, one weekly bar: the signals of the bar and the
\* bar of pf_trend.
WeeklyBar ==
  /\ spc = "trend"
  /\ \E close \in CloseValues, upper_prev \in UpperValues,
        st_line \in BandValues, st_dir \in DirValues,
        ema21 \in Ema21Values, ema50 \in Ema50Values :
       LET entries == TrendEntries(close, upper_prev, st_dir, ema21, ema50)
           exits == TrendExits(close, st_line, st_dir)
           k == Len(trend_sig) + 1
       IN  /\ trend_sig' = Append(trend_sig,
                                  [date |-> WeeklyDate(k), entries |-> entries,
                                   exits |-> exits])
           /\ weekly_dir' = Append(weekly_dir, st_dir)
           /\ portfolio' =
                [portfolio EXCEPT !.Trend =
                   FromSignals(@, entries, exits, SimulatorArgs.Trend.fees)]
           /\ spc' = IF k = NWeeks THEN "daily" ELSE "trend"
  /\ UNCHANGED <<high_sig, low_sig, was_below, was_above, start, benchmark>>
  /\ UNCHANGED <<btVars, aggVars, statVars>>

\* st_daily at a date of the daily index: the weekly direction reindexed with
\* method="ffill", 0 where there is none.
StDaily(d) ==
  LET ws == {k \in 1..Len(weekly_dir) : WeeklyDate(k) <= d}
  IN  IF ws = {} \/ weekly_dir[Max(ws)] = NaN
        THEN 0
        ELSE weekly_dir[Max(ws)]

\* fast.vbt.crossed_above(slow) at one bar, given whether fast was below slow
\* since the last crossing or missing value.
CrossedAbove(fast, slow, below) == below /\ Gt(fast, slow)

\* fast.vbt.crossed_below(slow) at one bar.
CrossedBelow(fast, slow, above) == above /\ Lt(fast, slow)

\* The tracker of a crossing after a bar.
Tracker(seen, opposite, same, fast, slow) ==
  IF fast = NaN \/ slow = NaN \/ same THEN FALSE
  ELSE IF opposite THEN TRUE
  ELSE seen

HighVolEntriesUngated(entries, st_daily) == entries

\* The entries handed to from_signals for high_vol.
HighVolEntries(entries, st_daily) == entries /\ st_daily = -1

\* The exits handed to from_signals for high_vol.
HighVolExits(exits) == exits

\* The entries handed to from_signals for low_vol.
LowVolEntries(exits, st_daily) == exits /\ st_daily = -1

\* The exits handed to from_signals for low_vol.
LowVolExits(entries) == entries

FastValues == {NaN, 1, 2, 3}

SlowValues == {NaN, 2}

\* build_daily_volatility_strategies, one daily bar: the crossings of the bar,
\* the signals of the two strategies and the bar of high_vol and of low_vol.
DailyBar ==
  /\ spc = "daily"
  /\ \E fast \in FastValues, slow \in SlowValues :
       LET n == Len(high_sig) + 1
           d == DailyDate(n)
           entries == CrossedAbove(fast, slow, was_below)
           exits == CrossedBelow(fast, slow, was_above)
           st_daily == StDaily(d)
           he == HighVolEntries(entries, st_daily)
           hx == HighVolExits(exits)
           le == LowVolEntries(exits, st_daily)
           lx == LowVolExits(entries)
       IN  /\ was_below' = Tracker(was_below, Lt(fast, slow), Gt(fast, slow),
                                   fast, slow)
           /\ was_above' = Tracker(was_above, Gt(fast, slow), Lt(fast, slow),
                                   fast, slow)
           /\ high_sig' = Append(high_sig,
                                 [date |-> d, entries |-> he, exits |-> hx])
           /\ low_sig' = Append(low_sig,
                                [date |-> d, entries |-> le, exits |-> lx])
           /\ portfolio' =
                [portfolio EXCEPT
                   !.High_Vol =
                     FromSignals(@, he, hx, SimulatorArgs.High_Vol.fees),
                   !.Low_Vol =
                     FromSignals(@, le, lx, SimulatorArgs.Low_Vol.fees)]
           /\ spc' = IF n = NDays THEN "first_dates" ELSE "daily"
  /\ UNCHANGED <<weekly_dir, trend_sig, start, benchmark>>
  /\ UNCHANGED <<btVars, aggVars, statVars>>

\* get_first_trade_date: the earliest entry timestamp of the trade records of
\* a portfolio, None (0) without trades.
get_first_trade_date(p, sig) ==
  LET opened == {k \in 1..Len(p.pos) :
                   p.pos[k] = "LONG" /\ (k = 1 \/ p.pos[k - 1] = "FLAT")}
  IN  IF opened = {} THEN 0 ELSE sig[MinOf(opened)].date

\* first_dates without the None entries.
first_dates ==
  {get_first_trade_date(portfolio.Trend, trend_sig),
   get_first_trade_date(portfolio.High_Vol, high_sig),
   get_first_trade_date(portfolio.Low_Vol, low_sig)} \ {0}

\* idxs = close_d.index[close_d.index >= start]
Idxs(s) == {d \in DailyIndex : d >= s}

\* First trade date logic and the benchmark: continue without a first trade
\* or without a daily date on or after it; bench_close = close_d.loc[start:].
FirstDates ==
  /\ spc = "first_dates"
  /\ IF first_dates = {}
       THEN start' = start /\ benchmark' = benchmark /\ spc' = "skipped"
       ELSE LET s == MinOf(first_dates)
            IN  IF s \in DailyIndex
                  THEN start' = s /\ benchmark' = s /\ spc' = "stats"
                  ELSE IF Idxs(s) = {}
                         THEN /\ start' = s
                              /\ benchmark' = benchmark
                              /\ spc' = "skipped"
                         ELSE /\ start' = MinOf(Idxs(s))
                              /\ benchmark' = MinOf(Idxs(s))
                              /\ spc' = "stats"
  /\ UNCHANGED <<weekly_dir, trend_sig, high_sig, low_sig, was_below,
                 was_above, portfolio>>
  /\ UNCHANGED <<btVars, aggVars, statVars>>

----------------------------------------------------------------------------
(* strategy_backtest.py: get_extended_stats on one portfolio.              *)

\* None, as a number no metric takes.
None == NaN + 1

\* The largest number of trades of a portfolio.
MaxTrades == 2

EXTENDED_METRICS ==
  {"total_return", "annualized_return", "max_dd", "sharpe_ratio",
   "sortino_ratio", "calmar_ratio", "total_trades", "win_rate",
   "avg_winning_trade", "avg_losing_trade", "profit_factor", "best_return",
   "worst_return"}

\* The trade metrics the inner except clause resets.
TradeMetrics ==
  {"total_trades", "win_rate", "avg_winning_trade", "avg_losing_trade",
   "profit_factor", "best_return", "worst_return"}

\* A trade record: PnL in currency units, Return in percent.
Trade(pnl, ret) == [PnL |-> pnl, Return |-> ret]

TradeKinds == {Trade(20, 2), Trade(-10, -1), Trade(0, 0)}

TradeLogs == UNION {[1..n -> TradeKinds] : n \in 0..MaxTrades}

\* The portfolios get_extended_stats is applied to: whether pf.stats raises,
\* the total return it reports (None: no such key), the years between the
\* first and the last index date (-1: pf.wrapper.index cannot be read),
\* whether pf.trades.records_readable raises, is None or lacks the PnL column,
\* the trade records and whether they have a Return column.
Portfolios ==
  [stats_raises : BOOLEAN,
   total_return : {None, -19, 0, 21},
   years : {-1, 0, 1, 2},
   trades_fail : {"no", "records", "none", "pnl"},
   trades : TradeLogs,
   return_col : BOOLEAN]

\* ((1 + total_ret/100) ** (1/years) - 1) * 100, for the returns and years
\* that give a whole percentage.
Annualized(total_ret, years) ==
  CHOOSE a \in -100..100 :
    \/ years = 1 /\ a = total_ret
    \/ years = 2 /\ (100 + a) * (100 + a) = (100 + total_ret) * 100

\* sum of a field over a set of trade positions
RECURSIVE Sum(_, _, _)
Sum(log, ks, f) ==
  IF ks = {} THEN 0
  ELSE LET k == CHOOSE x \in ks : TRUE
       IN  log[k][f] + Sum(log, ks \ {k}, f)

Abs(x) == IF x < 0 THEN 0 - x ELSE x

\* wins = trades[trades['PnL'] > 0]
Wins(log) == {k \in 1..Len(log) : log[k].PnL > 0}

\* losses = trades[trades['PnL'] < 0]
Losses(log) == {k \in 1..Len(log) : log[k].PnL < 0}

\* The mean of Return over some trades, times 100 (whole percent, rounded
\* down), None without a Return column.
MeanReturn(log, ks, return_col) ==
  IF ks = {} THEN None
  ELSE IF return_col THEN Sum(log, ks, "Return") \div Cardinality(ks)
  ELSE None

ProfitFactorOrZero(log) ==
  LET total_wins == IF Wins(log) # {} THEN Sum(log, Wins(log), "PnL") ELSE 0
      total_losses ==
        IF Losses(log) # {} THEN Abs(Sum(log, Losses(log), "PnL")) ELSE 0
  IN  IF total_losses > 0 THEN (100 * total_wins) \div total_losses ELSE 0

\* profit_factor in hundredths: total_wins / total_losses if total_losses > 0
\* else None.
ProfitFactor(log) ==
  LET total_wins == IF Wins(log) # {} THEN Sum(log, Wins(log), "PnL") ELSE 0
      total_losses ==
        IF Losses(log) # {} THEN Abs(Sum(log, Losses(log), "PnL")) ELSE 0
  IN  IF total_losses > 0 THEN (100 * total_wins) \div total_losses ELSE None

\* The stats dict with some keys set.
With(d, kv) == [m \in DOMAIN d \cup DOMAIN kv |->
                  IF m \in DOMAIN kv THEN kv[m] ELSE d[m]]

\* A dict with every metric of ms set to None.
AllNone(ms) == [m \in ms |-> None]

\* stats = {}
XIdle ==
  /\ xpc = "idle"
  /\ pf = [stats_raises |-> FALSE, total_return |-> None, years |-> 0,
           trades_fail |-> "no", trades |-> <<>>, return_col |-> FALSE]
  /\ stats = <<>>

XInit ==
  /\ xpc = "base"
  /\ pf \in Portfolios
  /\ stats = <<>>

\* base_stats = pf.stats(...).to_dict() and the five base metrics; when
\* pf.stats raises, the outer except sets every metric to None and the
\* function returns.
BaseStats ==
  /\ xpc = "base"
  /\ IF pf.stats_raises
       THEN stats' = AllNone(EXTENDED_METRICS) /\ xpc' = "returned"
       ELSE /\ stats' = [total_return |-> pf.total_return, max_dd |-> 5,
                         sharpe_ratio |-> 8, sortino_ratio |-> 12,
                         calmar_ratio |-> 7]
            /\ xpc' = "annualized"
  /\ pf' = pf
  /\ UNCHANGED <<btVars, aggVars, sigVars>>

\* Calculate annualized return from total return and duration.
AnnualizedReturn ==
  /\ xpc = "annualized"
  /\ stats' =
       With(stats,
            [annualized_return |->
               IF stats.total_return = None THEN None
               ELSE IF pf.years = -1 THEN None
               ELSE IF pf.years > 0
                      THEN Annualized(stats.total_return, pf.years)
                      ELSE None])
  /\ xpc' = "trades"
  /\ pf' = pf
  /\ UNCHANGED <<btVars, aggVars, sigVars>>

\* The trade statistics of a readable, non-empty trade log.
TradeStatistics(log, return_col) ==
  [total_trades |-> Len(log),
   win_rate |-> (Cardinality(Wins(log)) * 100) \div Len(log),
   avg_winning_trade |-> MeanReturn(log, Wins(log), return_col),
   avg_losing_trade |-> MeanReturn(log, Losses(log), return_col),
   profit_factor |-> ProfitFactor(log),
   best_return |->
     IF return_col
       THEN Max({log[k].Return : k \in 1..Len(log)})
       ELSE None,
   worst_return |->
     IF return_col
       THEN MinOf({log[k].Return : k \in 1..Len(log)})
       ELSE None]

\* The trade metrics without trades.
NoTrades == With(AllNone(TradeMetrics), [total_trades |-> 0])

\* Trade statistics: the try block and its except clause, which sets all seven
\* trade metrics to None wherever the block raised.
TradeStats ==
  /\ xpc = "trades"
  /\ stats' =
       With(stats,
            IF pf.trades_fail = "records" THEN AllNone(TradeMetrics)
            ELSE IF pf.trades_fail = "none" \/ Len(pf.trades) = 0
              THEN NoTrades
            ELSE IF pf.trades_fail = "pnl" THEN AllNone(TradeMetrics)
            ELSE TradeStatistics(pf.trades, pf.return_col))
  /\ xpc' = "returned"
  /\ pf' = pf
  /\ UNCHANGED <<btVars, aggVars, sigVars>>

----------------------------------------------------------------------------
(* Running a script a second time on the same file                         *)

\* The tables a run has computed, with the position it ended at.
Tables ==
  [apc |-> apc, df |-> df, top10 |-> top10,
   strategies_only |-> strategies_only, top_strategies |-> top_strategies,
   top_display |-> top_display, detailed_csv |-> detailed_csv,
   strategies |-> strategies, top20_manual |-> top20_manual,
   top20_check |-> top20_check]

\* The script has ended, normally or with an exception.
Ended == apc \in {"done", "crashed"}

\* The script is started again: a new process, whose frames start empty and
\* which finds the files the first run left (results/strategy_metrics.csv,
\* results/top_performers_detailed.csv, the HTML file).
Rerun ==
  /\ Ended /\ run = 1
  /\ run' = 2
  /\ first_run' = Tables
  /\ apc' = "load"
  /\ df' = <<>>
  /\ top10' = <<>>
  /\ strategies_only' = <<>>
  /\ top_strategies' = <<>>
  /\ top_display' = <<>>
  /\ strategies' = <<>>
  /\ top20_manual' = <<>>
  /\ top20_check' = <<>>
  /\ UNCHANGED <<script, csv, tradeCols, input, detailed_csv, html>>
  /\ UNCHANGED <<btVars, sigVars, statVars>>

----------------------------------------------------------------------------
(* Specifications                                                          *)

vars == <<btVars, aggVars, sigVars, statVars>>

\* A run of strategy_backtest.py.
Init == BtInit /\ AggIdle /\ SigIdle /\ XIdle

Next ==
  \/ DownloadWeekly
  \/ BuildWeeklyTrend
  \/ BuildDailyVolatility
  \/ FirstTradeDate
  \/ SaveStats
  \/ WriteReport
  \/ WriteSummary

Spec == Init /\ [][Next]_vars

\* A run of one aggregation script on a results table.
InitAgg == BtIdle /\ AggInit /\ SigIdle /\ XIdle

NextAgg ==
  \/ DashLoad
  \/ DashBeat
  \/ DashTop
  \/ DashFinish
  \/ TopLoad
  \/ TopMerge
  \/ TopScore
  \/ TopSort
  \/ TopSelect
  \/ TopSave
  \/ VerLoad
  \/ VerManual
  \/ VerTop
  \/ VerCheck
  \/ VerFinish
  \/ Rerun

SpecAgg == InitAgg /\ [][NextAgg]_vars

\* The strategy builders, the simulator and the first-trade-date logic on the
\* price history of one ticker.
InitSig == BtIdle /\ AggIdle /\ SigInit /\ XIdle

NextSig ==
  \/ WeeklyBar
  \/ DailyBar
  \/ FirstDates

SpecSig == InitSig /\ [][NextSig]_vars

\* get_extended_stats applied to one portfolio.
InitStats == BtIdle /\ AggIdle /\ SigIdle /\ XInit

NextStats ==
  \/ BaseStats
  \/ AnnualizedReturn
  \/ TradeStats

SpecStats == InitStats /\ [][NextStats]_vars

----------------------------------------------------------------------------
(* Properties of strategy_backtest.py (specification Spec)                 *)

\* The rows of results/strategy_metrics.csv that belong to ticker t.
RowsOfTicker(t) == {k \in 1..Len(df_summary) : df_summary[k].Ticker = t}

\* Exactly one Benchmark row and exactly the three strategy rows.
HasFullSet(t) ==
  LET ks == RowsOfTicker(t)
  IN  /\ Cardinality({k \in ks : df_summary[k].Strategy = "Benchmark"}) = 1
      /\ Cardinality({k \in ks : df_summary[k].Strategy # "Benchmark"}) = 3
      /\ {df_summary[k].Strategy : k \in ks} =
           {"Trend", "High_Vol", "Low_Vol", "Benchmark"}

HasNoRows(t) == RowsOfTicker(t) = {}

\* Every non-Benchmark row has exactly one Benchmark row with its Ticker.
OneBenchmarkPerStrategyRow ==
  \A k \in 1..Len(df_summary) :
    df_summary[k].Strategy # "Benchmark" =>
      Cardinality({j \in 1..Len(df_summary) :
                     /\ df_summary[j].Strategy = "Benchmark"
                     /\ df_summary[j].Ticker = df_summary[k].Ticker}) = 1

\* A download for t came back empty or without a required column.
FetchFailed(t) ==
  \/ weekly[t] \in {"empty", "nocols"}
  \/ daily[t] \in {"empty", "nokey", "noextra"}

\* The loop reached one of its `continue` statements for t.
LoopSkipped(t) ==
  \/ weekly[t] \in {"empty", "nocols"}
  \/ daily[t] = "empty"
  \/ first[t] \in {"notrades", "pastend"}

\* C1 as stated: once the loop has finished, every ticker has one Benchmark
\* row and three strategy rows, or zero rows if its data fetch failed, and every
\* non-Benchmark row has exactly one Benchmark row with the same Ticker.
C1_RowsOrFetchFailed ==
  pc = "done" =>
    /\ \A t \in TICKERS : IF FetchFailed(t) THEN HasNoRows(t) ELSE HasFullSet(t)
    /\ OneBenchmarkPerStrategyRow

\* C1 as amended: once the loop has finished, every ticker has one Benchmark
\* row and the three strategy rows, or zero rows; it has zero rows exactly when
\* the loop skipped it (download_weekly returned None, the daily download was
\* empty, no strategy traded, or no daily date lies on or after the earliest
\* first trade); every non-Benchmark row has exactly one Benchmark row with
\* the same Ticker.
C1_RowsPerTicker ==
  pc = "done" =>
    /\ \A t \in TICKERS : IF LoopSkipped(t) THEN HasNoRows(t) ELSE HasFullSet(t)
    /\ OneBenchmarkPerStrategyRow

\* A finished run with a ticker that has its four rows and a ticker whose
\* fetches succeeded and that has no row because no strategy traded.
C1_Witness ==
  /\ pc = "done"
  /\ \E t \in TICKERS : HasFullSet(t)
  /\ \E t \in TICKERS :
       HasNoRows(t) /\ weekly[t] = "ok" /\ daily[t] = "ok"
         /\ first[t] = "notrades"

\* C2: a ticker one of whose two downloads came back empty or without a
\* required column is skipped: it gets no entry in all_results and no report,
\* and the loop goes on to the next ticker instead of ending there.
C2_FailedFetchSkipsTicker ==
  \A t \in TICKERS :
    FetchFailed(t) =>
      /\ \A k \in 1..Len(all_results) : all_results[k].Ticker # t
      /\ t \notin reports
      /\ ~(pc = "aborted" /\ i = t)

\* C3: no failure while a ticker is processed ends the batch: the script never
\* stops with tickers left unprocessed and the summary CSV unwritten.
C3_BatchNeverAborts ==
  ~(pc = "aborted" /\ ~csvWritten)

----------------------------------------------------------------------------
(* Properties of the aggregation scripts (specification SpecAgg)           *)

RowSet(s) == {s[k] : k \in 1..Len(s)}

\* Two rows of the same (Ticker, Strategy).
SameRow(a, b) == a.Ticker = b.Ticker /\ a.Strategy = b.Strategy

InView(view, r) == \E v \in RowSet(view) : SameRow(v, r)

\* b is the Benchmark row of r's ticker.
BenchmarkOf(b, r) == b.Strategy = "Benchmark" /\ b.Ticker = r.Ticker

\* The positions of the scripts at which a frame has been computed.  A script
\* that crashed while loading has empty frames.
DashBeatDone ==
  script = "dashboard" /\ apc \in {"top", "findings", "done", "crashed"}

DashTopDone == script = "dashboard" /\ apc \in {"findings", "done", "crashed"}

TopMergeDone ==
  script = "top_performers"
    /\ apc \in {"score", "sort", "display", "save", "done", "crashed"}

TopScoreDone ==
  script = "top_performers"
    /\ apc \in {"sort", "display", "save", "done", "crashed"}

TopSortDone ==
  script = "top_performers" /\ apc \in {"display", "save", "done", "crashed"}

VerManualDone ==
  script = "verify" /\ apc \in {"top", "check", "stats", "done", "crashed"}

VerTopDone == script = "verify" /\ apc \in {"check", "stats", "done", "crashed"}

\* C4: for every non-Benchmark row, Beat_Market is true exactly when its total
\* return is strictly greater than the total return of the Benchmark row of
\* its own ticker, and its outperformance is its return minus that return
\* (build_dashboard, top_performers_analysis and verify_methodology).
C4_BeatMarketOwnBenchmark ==
  /\ DashBeatDone =>
       \A r \in RowSet(df), b \in RowSet(df) :
         (r.Strategy # "Benchmark" /\ BenchmarkOf(b, r)) =>
           /\ (r.Beat_Market = "Yes") <=> (r.ret > b.ret)
           /\ r.Market_Outperf = r.ret - b.ret
  /\ TopMergeDone =>
       \A r \in RowSet(strategies_only), b \in RowSet(df) :
         BenchmarkOf(b, r) =>
           /\ r.Beat_Market <=> (r.ret > b.ret)
           /\ r.Outperformance = r.ret - b.ret
  /\ VerManualDone =>
       \A r \in RowSet(strategies), b \in RowSet(csv) :
         BenchmarkOf(b, r) =>
           IF r.ret = NaN \/ b.ret = NaN
             THEN ~r.Manual_Beat_Market /\ r.Manual_Outperf = NaN
             ELSE /\ r.Manual_Beat_Market <=> (r.ret > b.ret)
                  /\ r.Manual_Outperf = r.ret - b.ret

\* Two tickers with different benchmark returns: a row that equals its own
\* benchmark and does not beat it, and a row that beats its own benchmark
\* while lying below the other ticker's.
C4_Witness ==
  /\ script = "dashboard" /\ apc = "top"
  /\ \E r1, r2, b1, b2 \in RowSet(df) :
       /\ r1.Strategy # "Benchmark" /\ r2.Strategy # "Benchmark"
       /\ BenchmarkOf(b1, r1) /\ BenchmarkOf(b2, r2)
       /\ r1.ret = b1.ret /\ r1.Beat_Market = "No"
       /\ r2.ret > b2.ret /\ r2.ret < b1.ret /\ r2.Beat_Market = "Yes"

\* The rows of df that build_dashboard marked as beating the market.
DashBeaters ==
  {k \in 1..Len(df) :
     df[k].Strategy # "Benchmark" /\ df[k].Beat_Market = "Yes"}

\* The rows of strategies that verify_methodology marked as beating.
ManualBeaters == {k \in 1..Len(strategies) : strategies[k].Manual_Beat_Market}

\* view holds Min(20, N) of the beaters of frame, each once, and no beater
\* left out has a higher return than a row of the view.
TopOfBeaters(view, frame, beaters) ==
  /\ Len(view) = Min(20, Cardinality(beaters))
  /\ \A v \in RowSet(view) :
       \E k \in beaters : SameRow(frame[k], v) /\ frame[k].ret = v.ret
  /\ \A a, b \in 1..Len(view) : a # b => ~SameRow(view[a], view[b])
  /\ \A k \in beaters :
       ~InView(view, frame[k]) =>
         \A v \in RowSet(view) : frame[k].ret <= v.ret

\* C5: the pure-outperformer top-20 view holds exactly min(20, N) rows, N the
\* number of non-Benchmark rows that beat the market; every row of it has a
\* total return strictly above its ticker's benchmark return (the return of
\* the ticker's Benchmark row; in build_dashboard 0 for a ticker that has no
\* Benchmark row after cleaning); no beater left out has a higher return than
\* a row of the view; the view is never padded.
C5_TopTwentyOutperformers ==
  /\ DashTopDone =>
       /\ TopOfBeaters(top10, df, DashBeaters)
       /\ \A v \in RowSet(top10) :
            /\ v.Strategy # "Benchmark"
            /\ \/ \E b \in RowSet(df) : BenchmarkOf(b, v) /\ v.ret > b.ret
               \/ /\ ~\E b \in RowSet(df) : BenchmarkOf(b, v)
                  /\ v.ret > 0
  /\ VerTopDone =>
       /\ TopOfBeaters(top20_manual, strategies, ManualBeaters)
       /\ \A v \in RowSet(top20_manual) :
            /\ v.Strategy # "Benchmark"
            /\ \E b \in RowSet(csv) :
                 BenchmarkOf(b, v) /\ b.ret # NaN /\ v.ret > b.ret

\* More than 20 rows beat the market: the view holds 20 and a beater with a
\* lower return than every row of the view is left out.
C5_Witness ==
  /\ script = "dashboard" /\ apc = "findings"
  /\ Cardinality(DashBeaters) > 20
  /\ Len(top10) = 20
  /\ \E k \in DashBeaters :
       ~InView(top10, df[k]) /\ \A v \in RowSet(top10) : df[k].ret < v.ret

\* The rows of view are in non-increasing order of return and ranked 1..len.
RankedByReturn(view) ==
  /\ \A k \in 1..(Len(view) - 1) : view[k].ret >= view[k + 1].ret
  /\ \A k \in 1..Len(view) : view[k].Rank = k

\* C6: in the pure-outperformer ranking the total return is non-increasing
\* across the ranked positions and Rank is 1..len(view) in that order.
C6_RankingNonIncreasing ==
  /\ DashTopDone => RankedByReturn(top10)
  /\ VerTopDone => RankedByReturn(top20_manual)

\* A view with a strict descent whose rows stood in another order in df.
C6_Witness ==
  /\ script = "dashboard" /\ apc = "findings"
  /\ Len(top10) >= 3
  /\ \E k \in 1..(Len(top10) - 1) : top10[k].ret > top10[k + 1].ret
  /\ \E j, k \in DashBeaters : j < k /\ df[j].ret < df[k].ret

\* Row k of frame has a negative return above its ticker's benchmark return.
NegativeBeater(frame, k, all) ==
  /\ frame[k].Strategy # "Benchmark"
  /\ frame[k].ret # NaN
  /\ frame[k].ret < 0
  /\ \E b \in RowSet(all) :
       BenchmarkOf(b, frame[k]) /\ b.ret # NaN /\ frame[k].ret > b.ret

\* The beaters with a higher return than row k.
Higher(frame, beaters, k) == {j \in beaters : frame[j].ret > frame[k].ret}

\* The beaters that nlargest places before row k: a higher return, or the
\* same return and an earlier position in the frame.
Before(frame, beaters, k) ==
  {j \in beaters :
     \/ frame[j].ret > frame[k].ret
     \/ frame[j].ret = frame[k].ret /\ j < k}

\* C7 as stated: a row with a negative return above its ticker's benchmark
\* return has Beat_Market true and is in the view whenever fewer than 20
\* outperformers have a higher return.
C7_NegativeBeaterInViewIfFewHigher ==
  /\ DashTopDone =>
       \A k \in 1..Len(df) :
         NegativeBeater(df, k, df) =>
           /\ df[k].Beat_Market = "Yes"
           /\ Cardinality(Higher(df, DashBeaters, k)) < 20
                => InView(top10, df[k])
  /\ VerTopDone =>
       \A k \in 1..Len(strategies) :
         NegativeBeater(strategies, k, csv) =>
           /\ strategies[k].Manual_Beat_Market
           /\ Cardinality(Higher(strategies, ManualBeaters, k)) < 20
                => InView(top20_manual, strategies[k])

\* C7 as amended: a row with a negative return above its ticker's benchmark
\* return has Beat_Market true, and it is in the view exactly when fewer than
\* 20 outperformers have a higher return or the same return and an earlier
\* position in the table; no positive-return condition applies.
C7_NegativeBeaterEligible ==
  /\ DashTopDone =>
       \A k \in 1..Len(df) :
         NegativeBeater(df, k, df) =>
           /\ df[k].Beat_Market = "Yes"
           /\ Cardinality(Before(df, DashBeaters, k)) < 20
                <=> InView(top10, df[k])
  /\ VerTopDone =>
       \A k \in 1..Len(strategies) :
         NegativeBeater(strategies, k, csv) =>
           /\ strategies[k].Manual_Beat_Market
           /\ Cardinality(Before(strategies, ManualBeaters, k)) < 20
                <=> InView(top20_manual, strategies[k])

\* A negative-return row is in the view, and another one with the same return
\* is left out because 20 rows come before it.
C7_Witness ==
  /\ script = "dashboard" /\ apc = "findings"
  /\ \E j, k \in 1..Len(df) :
       /\ NegativeBeater(df, j, df) /\ NegativeBeater(df, k, df)
       /\ df[j].ret = df[k].ret
       /\ InView(top10, df[j])
       /\ ~InView(top10, df[k])

\* Row r passes the three filter conditions, judged from the cleaned table.
PassesFilter(r) ==
  /\ r.Strategy # "Benchmark"
  /\ r.sharpe > 5
  /\ r.ret > 0
  /\ \E b \in RowSet(df) : BenchmarkOf(b, r) /\ r.ret > b.ret

\* C8: every row of top_strategies (and of the detailed CSV) is a
\* non-Benchmark row with Sharpe > 0.5, Beat_Market true and total return > 0,
\* and every non-Benchmark row of the cleaned input with all three is in it.
C8_CompositeFilter ==
  TopScoreDone =>
    /\ \A v \in RowSet(top_strategies) \cup RowSet(detailed_csv) :
         PassesFilter(v) /\ v.Beat_Market = TRUE
    /\ \A r \in RowSet(df) : PassesFilter(r) => InView(top_strategies, r)
    /\ \A a, b \in 1..Len(top_strategies) :
         a # b => ~SameRow(top_strategies[a], top_strategies[b])

\* The ranking holds a row, and two rows are left out each for one condition
\* alone: a Sharpe of exactly 0.5, a return that only equals the benchmark's.
C8_Witness ==
  /\ script = "top_performers" /\ apc = "sort"
  /\ Len(top_strategies) > 0
  /\ \E r \in RowSet(strategies_only) :
       r.sharpe = 5 /\ r.ret > 0 /\ r.Beat_Market
         /\ ~InView(top_strategies, r)
  /\ \E r \in RowSet(strategies_only) :
       r.sharpe > 5 /\ r.ret > 0 /\ r.ret = r.Benchmark_Return
         /\ ~InView(top_strategies, r)

\* The score recomputed from the row's own stored columns, in thousandths.
Recomputed(v) == 40 * v.sharpe + 3 * v.ret + 2 * v.Outperformance - v.dd

\* C9: for every row of the composite ranking (top_strategies and the
\* detailed CSV) the stored Composite_Score equals 0.4*Sharpe +
\* 0.3*(TotalReturn/100) + 0.2*(Outperformance/100) - 0.1*(MaxDrawdown/100)
\* recomputed from the row's own stored values.
C9_CompositeScoreRecomputes ==
  TopScoreDone =>
    \A v \in RowSet(top_strategies) \cup RowSet(detailed_csv) :
      v.Composite_Score = Recomputed(v)

\* The detailed CSV is written and holds a row with a drawdown and an
\* outperformance that differs from its return.
C9_Witness ==
  /\ script = "top_performers" /\ apc = "done"
  /\ \E v \in RowSet(detailed_csv) :
       /\ v.dd < 0
       /\ v.Outperformance # v.ret
       /\ v.Composite_Score = Recomputed(v)

\* The number of rows that pass the composite filter.
NQualifying == Cardinality({k \in 1..Len(df) : PassesFilter(df[k])})

\* The ranking is sorted by score, largest first, and ranked 1..N.
RankedByScore ==
  /\ Len(top_strategies) = NQualifying
  /\ \A k \in 1..(Len(top_strategies) - 1) :
       top_strategies[k].Composite_Score
         >= top_strategies[k + 1].Composite_Score
  /\ \A k \in 1..Len(top_strategies) : top_strategies[k].Rank = k

\* The displayed table is the first min(25, N) rows of the ranking.
DisplayCutToTop25 ==
  /\ Len(top_display) = Min(25, NQualifying)
  /\ \A k \in 1..Len(top_display) :
       /\ top_display[k].Rank = k
       /\ SameRow(top_display[k], top_strategies[k])
       /\ top_display[k].Composite_Score = top_strategies[k].Composite_Score

\* C10 as stated: the ranking is sorted by Composite_Score in non-increasing
\* order with Rank 1..N, and the displayed table and the persisted
\* results/top_performers_detailed.csv each hold exactly min(25, N) rows.
C10_DisplayAndCsvCutToTop25 ==
  /\ TopSortDone => RankedByScore
  /\ (script = "top_performers" /\ apc \in {"save", "done"})
       => DisplayCutToTop25
  /\ (script = "top_performers" /\ apc = "done")
       => Len(detailed_csv) = Min(25, NQualifying)

\* C10 as amended: the ranking is sorted by Composite_Score in non-increasing
\* order with Rank 1..N; the displayed table is cut to the top 25 (min(25, N)
\* rows); results/top_performers_detailed.csv holds all N ranked rows.
C10_DisplayCutCsvFull ==
  /\ TopSortDone => RankedByScore
  /\ (script = "top_performers" /\ apc \in {"save", "done"})
       => DisplayCutToTop25
  /\ (script = "top_performers" /\ apc = "done")
       => /\ Len(detailed_csv) = NQualifying
          /\ detailed_csv = top_strategies

\* More than 25 rows qualify: 25 are displayed, all are written to the CSV,
\* and the scores descend strictly somewhere.
C10_Witness ==
  /\ script = "top_performers" /\ apc = "done"
  /\ NQualifying > 25
  /\ Len(top_display) = 25
  /\ Len(detailed_csv) = NQualifying
  /\ \E k \in 1..(Len(detailed_csv) - 1) :
       detailed_csv[k].Composite_Score > detailed_csv[k + 1].Composite_Score

----------------------------------------------------------------------------
(* Re-running an aggregation script                                        *)

----------------------------------------------------------------------------
(* A ticker without a Benchmark row                                        *)

\* A row compared against a benchmark return of 0: it beats the market iff
\* its return is positive, and its outperformance is its return.
ComparedWithZero(beat, outperf, ret) ==
  /\ beat <=> ret > 0
  /\ outperf = ret

\* C12: in build_dashboard and top_performers_analysis every non-Benchmark row
\* whose ticker has no Benchmark row in the table being compared (the cleaned
\* table) is compared against a benchmark return of 0: Beat_Market is true iff
\* its total return > 0 and its outperformance equals its total return; and in
\* the dashboard-logic check of verify_methodology such a row with a positive
\* return counts as an outperformer.
C12_MissingBenchmarkIsZero ==
  /\ DashBeatDone =>
       \A k \in 1..Len(df) :
         (df[k].Strategy # "Benchmark" /\ ~HasBenchmark(df, df[k].Ticker))
           => ComparedWithZero(df[k].Beat_Market = "Yes",
                               df[k].Market_Outperf, df[k].ret)
  /\ TopMergeDone =>
       \A k \in 1..Len(strategies_only) :
         ~HasBenchmark(df, strategies_only[k].Ticker)
           => ComparedWithZero(strategies_only[k].Beat_Market = TRUE,
                               strategies_only[k].Outperformance,
                               strategies_only[k].ret)
  /\ (script = "verify" /\ apc \in {"stats", "done"}) =>
       \A k \in 1..Len(csv) :
         ( /\ csv[k].Strategy # "Benchmark"
           /\ csv[k].ret # NaN /\ csv[k].sharpe # NaN
           /\ ~HasBenchmark(DropNa(csv), csv[k].Ticker)
           /\ csv[k].ret > 0
           /\ Len(Outperformers(WithBeatMarket(DropNa(csv)))) <= OutperformerN )
           => InView(top20_check, csv[k])

----------------------------------------------------------------------------
(* The columns of results/strategy_metrics.csv                             *)

\* C13: results/strategy_metrics.csv written by strategy_backtest has exactly
\* one row per (Ticker, Strategy) pair and carries every metric column named
\* by the interface, 'Total Trades' and 'Win Rate [%]' included, so that every
\* column top_performers_analysis and build_dashboard read from it exists.
C13_CsvCarriesInterfaceColumns ==
  (pc = "done" /\ Len(df_summary) > 0) =>
    /\ \A j, k \in 1..Len(df_summary) :
         SameRow(df_summary[j], df_summary[k]) => j = k
    /\ InterfaceColumns \subseteq Columns(all_results)
    /\ display_cols \subseteq (Columns(all_results) \cup ComputedColumns)

----------------------------------------------------------------------------
(* Properties of the strategy builders and the simulator (specification    *)
(* SpecSig)                                                                *)

\* The bars of the daily signals built so far.
DailyBars == 1..Len(high_sig)

\* The weekly direction is bearish at daily bar n.
Bearish(n) == StDaily(high_sig[n].date) = -1

\* C14 as stated: at every daily timestamp the High-Vol entry signal and the
\* Low-Vol exit signal coincide, and the Low-Vol entry signal and the High-Vol
\* exit signal coincide.
C14_EntryCoincidesWithOtherExit ==
  \A n \in DailyBars :
    /\ high_sig[n].entries <=> low_sig[n].exits
    /\ low_sig[n].entries <=> high_sig[n].exits

\* C14 as amended: at every daily timestamp the High-Vol entry signal is the
\* Low-Vol exit signal gated by a bearish weekly direction, and the Low-Vol
\* entry signal is the High-Vol exit signal gated by a bearish weekly
\* direction; an entry implies the other strategy's exit, and an exit implies
\* the other strategy's entry only where the direction is bearish.
C14_EntryIsGatedOtherExit ==
  \A n \in DailyBars :
    /\ high_sig[n].entries <=> (low_sig[n].exits /\ Bearish(n))
    /\ low_sig[n].entries <=> (high_sig[n].exits /\ Bearish(n))
    /\ high_sig[n].date = low_sig[n].date

\* A Low-Vol exit without a High-Vol entry where the direction is not bearish,
\* a High-Vol exit with a Low-Vol entry and a High-Vol entry with a Low-Vol
\* exit where it is.
C14_Witness ==
  /\ \E n \in DailyBars :
       low_sig[n].exits /\ ~high_sig[n].entries /\ ~Bearish(n)
  /\ \E n \in DailyBars :
       high_sig[n].exits /\ low_sig[n].entries /\ Bearish(n)
  /\ \E n \in DailyBars :
       high_sig[n].entries /\ low_sig[n].exits /\ Bearish(n)

\* The signals of the three strategy variants with the index of the price
\* series each is simulated against.
SignalSets ==
  <<[sig |-> trend_sig, index |-> WeeklyIndex],
    [sig |-> high_sig, index |-> DailyIndex],
    [sig |-> low_sig, index |-> DailyIndex]>>

\* The dates of the bars of a signal series.
Dates(sig) == {sig[n].date : n \in 1..Len(sig)}

\* C15: for each of Trend, High_Vol and Low_Vol the entry and exit signals
\* handed to the simulator are never both true at the same timestamp, are
\* never null (each is True or False), and once built have the length and the
\* index of the price series they are simulated against.
C15_SignalsExclusiveNonNullAligned ==
  \A v \in 1..3 :
    LET sig == SignalSets[v].sig
        index == SignalSets[v].index
    IN  /\ \A n \in 1..Len(sig) :
             /\ sig[n].entries \in BOOLEAN /\ sig[n].exits \in BOOLEAN
             /\ ~(sig[n].entries /\ sig[n].exits)
             /\ sig[n].date \in index
             /\ \A m \in 1..(n - 1) : sig[m].date < sig[n].date
        /\ spc \in {"first_dates", "stats", "skipped"} =>
             Len(sig) = Cardinality(index) /\ Dates(sig) = index

\* All signals are built; every variant has a bar with an entry and a bar with
\* an exit.
C15_Witness ==
  /\ spc \in {"first_dates", "stats", "skipped"}
  /\ \A v \in 1..3 :
       /\ \E n \in 1..Len(SignalSets[v].sig) : SignalSets[v].sig[n].entries
       /\ \E n \in 1..Len(SignalSets[v].sig) : SignalSets[v].sig[n].exits

\* The strategy portfolios with the signals each was simulated on.
Simulated ==
  <<[pf |-> portfolio.Trend, sig |-> trend_sig],
    [pf |-> portfolio.High_Vol, sig |-> high_sig],
    [pf |-> portfolio.Low_Vol, sig |-> low_sig]>>

\* The position of a portfolio before bar n.
Before_(p, n) == IF n = 1 THEN "FLAT" ELSE p.pos[n - 1]

C16_EntryWhileLong ==
  /\ Len(trend_sig) >= 2
  /\ trend_sig[1].entries /\ trend_sig[2].entries
  /\ portfolio.Trend.pos[1] = "LONG" /\ portfolio.Trend.pos[2] = "LONG"

\* C17: each of the three strategy portfolios is simulated with the same
\* position sizing (SIZE_PERCENT of equity), the same initial cash, and the
\* commission rate COMMISSION charged on every fill.
C17_SameSizingCashCommission ==
  \A s \in {"Trend", "High_Vol", "Low_Vol"} :
    portfolio[s].fills > 0 =>
      /\ SimulatorArgs[s].size = SIZE_PERCENT
      /\ SimulatorArgs[s].size_type = "percent"
      /\ SimulatorArgs[s].init_cash = INITIAL_CASH
      /\ SimulatorArgs[s].fees = COMMISSION
      /\ portfolio[s].fees_paid = COMMISSION * portfolio[s].fills

\* The first date of the series a recorded strategy portfolio was simulated
\* over: pf_trend, high_vol and low_vol are built from the first bar of close.
SimulationStart(sig) == sig[1].date

\* The earliest first-trade date of the three strategies, or the smallest
\* daily date on or after it when it is not a daily date.
SynchronizedStart ==
  LET s == MinOf(first_dates)
  IN  IF s \in DailyIndex THEN s ELSE MinOf({d \in DailyIndex : d >= s})

\* C18: for a processed ticker the four recorded portfolios share one
\* simulation start date, the earliest first-trade date of the three
\* strategies or the next daily date when that is not in the daily index; the
\* Benchmark starts (buys) at that date.
C18_SharedStartDate ==
  spc = "stats" =>
    /\ start = SynchronizedStart
    /\ benchmark = start
    /\ SimulationStart(trend_sig) = start
    /\ SimulationStart(high_sig) = start
    /\ SimulationStart(low_sig) = start

----------------------------------------------------------------------------
(* Properties of get_extended_stats (specification SpecStats)              *)

\* The trade records can be read and hold no trade.
ZeroTrades ==
  pf.trades_fail = "none" \/ (pf.trades_fail # "records" /\ Len(pf.trades) = 0)

\* The metrics that need at least one trade.
NeedTrades == TradeMetrics \ {"total_trades"}

\* C19: get_extended_stats always returns a dict with every extended metric
\* (no exception reaches the caller), and a metric that cannot be computed is
\* None, not zero: with zero trades win rate, average win and loss, profit
\* factor, best and worst trade are None; without a losing trade profit factor
\* is None; with zero elapsed years or a missing total return annualized
\* return is None.
C19_MissingNotZero ==
  /\ xpc \in {"idle", "base", "annualized", "trades", "returned"}
  /\ xpc = "returned" =>
       /\ DOMAIN stats = EXTENDED_METRICS
       /\ ZeroTrades => \A m \in NeedTrades : stats[m] = None
       /\ (pf.trades_fail = "records" \/ Losses(pf.trades) = {})
            => stats.profit_factor = None
       /\ (pf.years <= 0 \/ pf.total_return = None \/ pf.stats_raises)
            => stats.annualized_return = None

\* get_extended_stats has returned the statistics of a portfolio with a
\* winning trade, no losing trade and zero elapsed years: a win rate, no profit
\* factor, no annualized return.
C19_Witness ==
  /\ xpc = "returned"
  /\ ~pf.stats_raises /\ pf.trades_fail = "no"
  /\ pf.years = 0 /\ pf.total_return = 21
  /\ Wins(pf.trades) # {} /\ Losses(pf.trades) = {}
  /\ stats.total_return = 21
  /\ stats.win_rate > 0
  /\ stats.profit_factor = None
  /\ stats.annualized_return = None

\* get_extended_stats has returned the statistics of a portfolio without
\* trades: a trade count of 0 and no other trade metric.
C19_WitnessZeroTrades ==
  /\ xpc = "returned"
  /\ ~pf.stats_raises /\ ZeroTrades
  /\ stats.total_trades = 0
  /\ \A m \in NeedTrades : stats[m] = None

\* C20: when the computation of one metric fails, only that metric is None:
\* every metric that can be computed keeps its computed value in the returned
\* statistics: the trade count whenever the trade records can be read, the
\* total return whenever pf.stats reports it, the best and worst trade
\* whenever the records have a Return column.
C20_OnlyFailedMetricMissing ==
  xpc = "returned" =>
    /\ pf.trades_fail \in {"no", "pnl"} => stats.total_trades = Len(pf.trades)
    /\ (~pf.stats_raises /\ pf.total_return # None)
         => stats.total_return = pf.total_return
    /\ (pf.trades_fail \in {"no", "pnl"} /\ Len(pf.trades) > 0 /\ pf.return_col)
         => /\ stats.best_return
                 = Max({pf.trades[k].Return : k \in 1..Len(pf.trades)})
            /\ stats.worst_return
                 = MinOf({pf.trades[k].Return : k \in 1..Len(pf.trades)})

----------------------------------------------------------------------------
(* verify_methodology: the manual top 20 against the dashboard logic       *)

\* The comparison step has run.
VerCheckDone == script = "verify" /\ apc \in {"stats", "done", "crashed"}
                  /\ Readable(csv)

\* What the comparison step checks: the same number of rows and the same
\* rank-1 (Ticker, Strategy).
SameCountAndFirst ==
  /\ Len(top20_check) = Len(top20_manual)
  /\ (Len(top20_check) > 0 /\ Len(top20_manual) > 0)
       => SameRow(top20_check[1], top20_manual[1])

\* No row of the table lacks its Total Return or its Sharpe Ratio, and every
\* row's ticker has a Benchmark row.
NoMissingValues ==
  \A k \in 1..Len(csv) :
    /\ csv[k].ret # NaN /\ csv[k].sharpe # NaN
    /\ HasBenchmark(csv, csv[k].Ticker)

\* C21 as stated: for every input results table the top 20 of the manual
\* method and the top 20 of the dashboard logic have the same number of rows
\* and the same rank-1 (Ticker, Strategy).
C21_ManualEqualsDashboardLogic == VerCheckDone => SameCountAndFirst

\* C21 as amended: for every input results table in which no row lacks its
\* Total Return or Sharpe Ratio and every ticker has its Benchmark row, the
\* two top 20 have the same number of rows and hold the same (Ticker,
\* Strategy) with the same return at every rank.
C21_ManualEqualsDashboardLogicIfClean ==
  (VerCheckDone /\ NoMissingValues) =>
    /\ SameCountAndFirst
    /\ \A k \in 1..Len(top20_check) :
         /\ SameRow(top20_check[k], top20_manual[k])
         /\ top20_check[k].ret = top20_manual[k].ret

\* The comparison ran on a table without missing values with more than 20
\* outperformers of different returns: both top 20 are full and agree.
C21_Witness ==
  /\ VerCheckDone /\ NoMissingValues
  /\ Len(ManualOutperformers(strategies)) > OutperformerN
  /\ Len(top20_check) = OutperformerN /\ Len(top20_manual) = OutperformerN
  /\ top20_manual[1].ret > top20_manual[OutperformerN].ret
  /\ SameCountAndFirst

----------------------------------------------------------------------------
(* Completion of build_dashboard and top_performers_analysis               *)

\* The file has the columns the script reads.
HasRequiredColumns ==
  Readable(csv) /\ (script = "top_performers" => tradeCols)

\* C22: on every results table that has the required columns build_dashboard
\* and top_performers_analysis run to their end and write their HTML file,
\* also when no strategy beats its benchmark, no Trend row survives cleaning
\* or no row passes the composite filter.
C22_ScriptsComplete ==
  (script \in {"dashboard", "top_performers"} /\ HasRequiredColumns) =>
    /\ apc # "crashed"
    /\ apc = "done" => html

----------------------------------------------------------------------------
(* The results collection of strategy_backtest.py                          *)

\* One step of the loop leaves the collection alone or appends one entry, the
\* one of the current ticker with its four statistics sets.
AppendsOneOrNothing ==
  \/ all_results' = all_results
  \/ /\ Len(all_results') = Len(all_results) + 1
     /\ SubSeq(all_results', 1, Len(all_results)) = all_results
     /\ all_results'[Len(all_results')].Ticker = ticker
     /\ DOMAIN all_results'[Len(all_results')]
          = {"Ticker", "Trend", "High_Vol", "Low_Vol", "Benchmark"}

\* The entries are in universe order, at most one per ticker and none for a
\* ticker the loop has not reached.
InUniverseOrder ==
  /\ \A j, k \in 1..Len(all_results) :
       j < k => all_results[j].Ticker < all_results[k].Ticker
  /\ \A k \in 1..Len(all_results) : all_results[k].Ticker <= i

\* The final table: the rows of the entries in order, each entry's rows in the
\* order Trend, High_Vol, Low_Vol, Benchmark.
FinalTableInOrder ==
  /\ Len(df_summary) = 4 * Len(all_results)
  /\ \A k \in 1..Len(all_results) :
       \A n \in 1..4 :
         LET row == df_summary[4 * (k - 1) + n]
             strat == <<"Trend", "High_Vol", "Low_Vol", "Benchmark">>[n]
         IN  /\ row.Ticker = all_results[k].Ticker
             /\ row.Strategy = strat
             /\ row.ret = all_results[k][strat].ret
             /\ row.sharpe = all_results[k][strat].sharpe

\* C23: across the per-ticker loop the results collection is append-only:
\* every step appends exactly one entry, for the current ticker with its four
\* statistics sets, or nothing; earlier entries are never modified or removed;
\* the final table lists the tickers in universe order with each ticker's rows
\* in the order Trend, High_Vol, Low_Vol, Benchmark.
C23_ResultsAppendOnly ==
  /\ [][AppendsOneOrNothing]_vars
  /\ [](InUniverseOrder /\ (pc = "done" => FinalTableInOrder))

\* The loop has finished with an entry for every ticker and the final table
\* is written in that order.
C23_Witness ==
  /\ pc = "done" /\ csvWritten
  /\ Len(all_results) = NTickers
  /\ FinalTableInOrder
====
